---------------------------- MODULE Spec2Model ----------------------------
(***************************************************************************)
(* Model of src/proto.rs: the libvirt RPC transport.                       *)
(*                                                                         *)
(*   bytes -> length_delimited frame layer -> LibvirtCodec ->              *)
(*   LibvirtTransport (process_event / process_stream / reply)             *)
(*                                                                         *)
(* Bytes are naturals 0..255, 32-bit words are 4-tuples of bytes in        *)
(* big-endian order and a 64-bit RequestId is an 8-tuple, so casts         *)
(* (`as u32`, `as u16`, `as RequestId`) keep their exact width.            *)
(*                                                                         *)
(* Four specifications share the variables:                                *)
(*   Spec       the read path  (peer, LibvirtTransport::poll, subscribers) *)
(*   SpecWrite  the write path (start_send, poll_complete, close)          *)
(*   SpecCodec  LibvirtCodec::encode followed by LibvirtCodec::decode      *)
(*   SpecLock   process_event's block under the Mutex, step by step,       *)
(*              against the application's inserts and removals             *)
(***************************************************************************)
EXTENDS Integers, Sequences, FiniteSets, TLC

VARIABLES
    \* ---- read path
    sock,      \* bytes the peer has written that the transport has not read
    peerEof,   \* the peer has shut its sending side
    nsent,     \* number of chunks the peer has written
    fl,        \* read state of length_delimited::Framed: buf, data, eof, readable
    events,    \* the shared table: callbackID -> channel of its Sender
    last,      \* what the latest call of LibvirtTransport::poll did
    \* ---- write path
    wr,        \* write state of length_delimited::Framed and the socket
    sendlog,   \* what the calls of start_send were given and did
    \* ---- codec round trip
    rt,        \* input, encoded bytes and decoded output of one round trip
    \* ---- the lock of the events table
    lk         \* who holds the Mutex, and where process_event is in its block

vars == <<sock, peerEof, nsent, fl, events, last, wr, sendlog, rt, lk>>
readVars == <<sock, peerEof, nsent, fl, events, last>>
writeVars == <<wr, sendlog>>

---------------------------------------------------------------------------
(* Bounds of the model.                                                    *)

\* chunks (frames or malformed pieces) the peer writes on one connection
MaxFrames == 2
\* `buffer` argument of mpsc::channel for a subscriber's channel
ChanBuffer == 0
\* calls of start_send on one connection
MaxSends == 2
\* event frames process_event handles while the application changes the table
MaxDeliveries == 2

---------------------------------------------------------------------------
(* Words.                                                                  *)

W(a, b, c, d) == <<a, b, c, d>>

\* the value of a big-endian word whose top byte is zero
WordVal(w) == w[2] * 65536 + w[3] * 256 + w[4]

\* big-endian word of a natural below 2^24
ValWord(n) == <<0, (n \div 65536) % 256, (n \div 256) % 256, n % 256>>

Take(s, n) == SubSeq(s, 1, n)
Drop(s, n) == SubSeq(s, n + 1, Len(s))


---------------------------------------------------------------------------
(* request::virNetMessageHeader and its XDR form (generated code).         *)

\* virNetMessageType
VIR_NET_CALL == 0
VIR_NET_REPLY == 1
VIR_NET_MESSAGE == 2
VIR_NET_STREAM == 3
VIR_NET_TYPE_LAST == 5

\* virNetMessageStatus
VIR_NET_OK == 0
VIR_NET_STATUS_LAST == 2

MessageTypes == VIR_NET_CALL..VIR_NET_TYPE_LAST
MessageStatuses == VIR_NET_OK..VIR_NET_STATUS_LAST

\* size in bytes of a packed virNetMessageHeader: six 4-byte fields
HeaderLen == 24

\* an enum is packed as the big-endian word of its discriminant
PackEnum(e) == <<0, 0, 0, e>>

\* and unpacked only when the word is the discriminant of a variant
UnpackEnumOk(w, variants) == w[1] = 0 /\ w[2] = 0 /\ w[3] = 0 /\ w[4] \in variants

\* virNetMessageHeader::pack: prog, vers, proc_, type_, serial, status
PackHeader(h) ==
    h.prog \o h.vers \o h.proc_ \o PackEnum(h.type_) \o h.serial \o PackEnum(h.status)

\* virNetMessageHeader::pack succeeds: the enumerated fields are variants
PackHeaderOk(h) == h.type_ \in MessageTypes /\ h.status \in MessageStatuses

\* virNetMessageHeader::unpack succeeds on these bytes
UnpackHeaderOk(b) ==
    /\ Len(b) >= HeaderLen
    /\ UnpackEnumOk(SubSeq(b, 13, 16), MessageTypes)
    /\ UnpackEnumOk(SubSeq(b, 21, 24), MessageStatuses)

\* the header virNetMessageHeader::unpack returns (with hlen = HeaderLen)
UnpackHeader(b) ==
    [prog   |-> SubSeq(b, 1, 4),
     vers   |-> SubSeq(b, 5, 8),
     proc_  |-> SubSeq(b, 9, 12),
     type_  |-> b[16],
     serial |-> SubSeq(b, 17, 20),
     status |-> b[24]]

---------------------------------------------------------------------------
(* LibvirtCodec.                                                           *)

\* `msg.0 as u32`: the low 32 bits of a 64-bit RequestId
AsU32(id) == SubSeq(id, 5, 8)

\* `header.serial as RequestId`: zero extension of a u32
AsRequestId(serial) == <<0, 0, 0, 0>> \o serial

\* LibvirtCodec::encode appends to an empty buffer: the header with its
\* serial overwritten, then the payload.  The 64-byte buffer of start_send
\* holds the header, so encode fails only when the packer rejects a field.
EncodeSerial(id) == AsU32(id)

\* `req.header.pack(..)` is Ok; its error becomes InvalidInput
EncodeOk(id, req) == PackHeaderOk([req.header EXCEPT !.serial = EncodeSerial(id)])

\* encode that leaves the caller's serial in the header
EncodeKeepSerial(id, req) == PackHeader(req.header) \o req.payload

Encode(id, req) ==
    PackHeader([req.header EXCEPT !.serial = EncodeSerial(id)]) \o req.payload

\* LibvirtCodec::decode of one frame: an InvalidInput error when the header
\* does not unpack, else (header.serial as RequestId, LibvirtResponse)
DecodeOk(b) == UnpackHeaderOk(b)

DecodePayload(b, hlen) == Drop(b, hlen)

Decode(b) ==
    LET header == UnpackHeader(b) IN
    [id   |-> AsRequestId(header.serial),
     resp |-> [header |-> header, payload |-> DecodePayload(b, HeaderLen)]]

---------------------------------------------------------------------------
(* The frame layer: length_delimited::Framed as bind_transport builds it.  *)

LengthFieldOffset == 0
LengthFieldLength == 4
\* the builder without its length_adjustment(-4) line
NoLengthAdjustment == 4 - 4

LengthAdjustment == -4
\* Builder::new(): max_frame_length defaults to 8 MiB
MaxFrameLen == 8388608

\* the length field exceeds max_frame_length
FrameTooBig(p) == p[1] > 0 \/ WordVal(p) > MaxFrameLen

\* read side: number of bytes of the frame that follow a length field p
FrameLen(p) == WordVal(p) + LengthAdjustment

\* write side: the length field written before a frame of n bytes
FrameHead(n) == ValWord(n - LengthAdjustment)

\* the bytes length_delimited writes for one frame
Framed(bytes) == FrameHead(Len(bytes)) \o bytes

\* results of the frame layer's poll
FLRet(kind, bytes, head, err, f, io) ==
    [kind |-> kind, bytes |-> bytes, head |-> head, err |-> err, f |-> f, io |-> io]

\* Decoder::decode of length_delimited: decode_head in state Head
\* (data = -1), then decode_data in state Data(n).  f.head remembers the
\* length field of the frame being read, for the frame's result.
FLDecodeData(f) ==
    IF Len(f.buf) < f.data
    THEN [kind |-> "none", err |-> "", bytes |-> <<>>, head |-> <<>>, f |-> f]
    ELSE [kind |-> "frame", err |-> "", bytes |-> Take(f.buf, f.data),
          head |-> f.head,
          f |-> [f EXCEPT !.buf = Drop(f.buf, f.data), !.data = -1,
                          !.head = <<>>]]

FLDecode(f) ==
    IF f.data >= 0 THEN FLDecodeData(f)
    ELSE IF Len(f.buf) < LengthFieldOffset + LengthFieldLength
    THEN [kind |-> "none", err |-> "", bytes |-> <<>>, head |-> <<>>, f |-> f]
    ELSE LET p == SubSeq(f.buf, LengthFieldOffset + 1,
                         LengthFieldOffset + LengthFieldLength) IN
         IF FrameTooBig(p)
         THEN [kind |-> "err", err |-> "InvalidData", bytes |-> <<>>,
               head |-> <<>>, f |-> f]
         ELSE IF FrameLen(p) < 0
         THEN [kind |-> "err", err |-> "InvalidInput", bytes |-> <<>>,
               head |-> <<>>, f |-> f]
         ELSE FLDecodeData([f EXCEPT
                  !.buf = Drop(f.buf, LengthFieldOffset + LengthFieldLength),
                  !.data = FrameLen(p),
                  !.head = p])

\* Stream::poll of the frame layer (codec::FramedRead over the decoder):
\* decode while readable, decode_eof once the read has returned 0 bytes,
\* else read what the socket holds
RECURSIVE FLPoll(_, _)
RECURSIVE FLDecoded(_, _, _)

\* the readable branch of that loop, d being what decode returned
FLDecoded(d, f, io) ==
    IF d.kind = "frame" THEN FLRet("frame", d.bytes, d.head, "", d.f, io)
    ELSE IF d.kind = "err" THEN FLRet("err", <<>>, <<>>, d.err, d.f, io)
    ELSE IF f.eof
    THEN IF d.f.buf = <<>>
         THEN FLRet("done", <<>>, <<>>, "", d.f, io)
         ELSE FLRet("err", <<>>, <<>>, "Other", d.f, io)
    ELSE FLPoll([d.f EXCEPT !.readable = FALSE], io)

FLPoll(f, io) ==
    IF f.readable
    THEN FLDecoded(FLDecode(f), f, io)
    ELSE IF io.sock # <<>>
    THEN FLPoll([f EXCEPT !.buf = @ \o io.sock, !.readable = TRUE],
                [io EXCEPT !.sock = <<>>])
    ELSE IF io.eof
    THEN FLPoll([f EXCEPT !.eof = TRUE, !.readable = TRUE], io)
    ELSE FLRet("notready", <<>>, <<>>, "", f, io)

\* a decoder that answers Ok(None) to a frame it cannot unpack, which
\* FramedTransport::poll would pass on as Ready(None)
FTPollShortIsNone(f, io) ==
    LET r == FLPoll(f, io) IN
    IF r.kind = "frame" /\ ~DecodeOk(r.bytes)
    THEN FLRet("done", r.bytes, r.head, "", r.f, r.io)
    ELSE r

\* FramedTransport::poll: the frame layer's result, a frame decoded by the
\* codec
FTDecode(r) ==
    IF r.kind = "frame" /\ ~DecodeOk(r.bytes)
    THEN FLRet("err", r.bytes, r.head, "InvalidInput", r.f, r.io)
    ELSE r

FTPoll(f, io) == FTDecode(FLPoll(f, io))

---------------------------------------------------------------------------
(* The events table and the subscribers' channels (futures::sync::mpsc).   *)

\* mpsc::channel(ChanBuffer): a new channel, its Sender in the table
NewChannel == [queue |-> <<>>, parked |-> FALSE, open |-> TRUE]

\* Sender::start_send: "err" when the Receiver is gone, "full"
\* (AsyncSink::NotReady, the message handed back) while the sender is
\* parked, else the message is queued, and the sender parks when the queue
\* now holds more than `buffer` messages
SendKind(ch) ==
    IF ~ch.open THEN "err" ELSE IF ch.parked THEN "full" ELSE "sent"

SendTo(ch, v) ==
    IF SendKind(ch) = "sent"
    THEN [ch EXCEPT !.queue = Append(@, v),
                    !.parked = (Len(ch.queue) + 1 > ChanBuffer)]
    ELSE ch

---------------------------------------------------------------------------
(* LibvirtTransport.                                                       *)

\* remote_procedure (generated enum): the callback this transport decodes
\* and the last variant
REMOTE_PROC_DOMAIN_EVENT_CALLBACK_LIFECYCLE == 318
REMOTE_PROC_LAST == 390

\* `resp.header.proc_ as u16`
AsU16(w) == w[3] * 256 + w[4]

\* the u16 is the discriminant of a variant of remote_procedure; for any
\* other value the transmute is undefined behaviour
ValidProcedure(n) == n \in 1..REMOTE_PROC_LAST

\* what a build can do with an invalid discriminant: take the `_` arm, or
\* fault while formatting it
UBOutcomes == {"other", "abort"}

\* remote_domain_event_callback_lifecycle_msg (generated code), abridged
\* to its integers callbackID and event
LifecycleMsgLen == 8
UnpackLifecycleOk(p) == Len(p) >= LifecycleMsgLen
UnpackLifecycle(p) == [callbackID |-> SubSeq(p, 1, 4), event |-> SubSeq(p, 5, 8)]

\* `msg.into()`: the DomainEvent of a lifecycle message
IntoDomainEvent(msg) == [event |-> msg.event]

\* the procedure as the match of process_event sees it
Procedure(resp) == AsU16(resp.header.proc_)

IsLifecycle(resp) == Procedure(resp) = REMOTE_PROC_DOMAIN_EVENT_CALLBACK_LIFECYCLE

\* the entry of the events table that process_event sends to
Lookup(ev, callbackID) ==
    IF callbackID \in DOMAIN ev THEN {callbackID} ELSE {}

\* a process_event that takes a refused send for a failed one
AfterSendFullIsError(kind) == IF kind \in {"err", "full"} THEN "err" ELSE "true"

\* a process_event that drops every result of start_send
AfterSendIgnored(kind) == "true"

\* what process_event returns after the lookup and the send: the result of
\* start_send is dropped unless it is an error
AfterSend(kind) == IF kind = "err" THEN "err" ELSE "true"

\* LibvirtTransport::process_event: ret is "true" / "false" (Ok), "err"
\* (InvalidInput) or "abort" (the unwrap of a failed unpack panics, or
\* undefined behaviour faults); ev is the table afterwards
ProcessEvent(resp, ev, ub) ==
    IF ~ValidProcedure(Procedure(resp)) /\ ub = "abort"
    THEN [ret |-> "abort", ev |-> ev, sent |-> "none"]
    ELSE IF ~IsLifecycle(resp)
    THEN [ret |-> "false", ev |-> ev, sent |-> "none"]
    ELSE IF ~UnpackLifecycleOk(resp.payload)
    THEN [ret |-> "abort", ev |-> ev, sent |-> "none"]
    ELSE LET msg == UnpackLifecycle(resp.payload)
             hit == Lookup(ev, msg.callbackID) IN
         IF hit = {}
         THEN [ret |-> "true", ev |-> ev, sent |-> "miss"]
         ELSE LET k == CHOOSE k \in hit : TRUE IN
              [ret  |-> AfterSend(SendKind(ev[k])),
               ev   |-> [ev EXCEPT ![k] = SendTo(@, IntoDomainEvent(msg))],
               sent |-> SendKind(ev[k])]

\* LibvirtTransport::process_stream
ProcessStream(resp) == resp.header.type_ = VIR_NET_STREAM

\* results of LibvirtTransport::poll: "value" is Ready(Some((id, resp))),
\* "done" is Ready(None), "notready", "err", and "abort" for a panic
Out(kind, id, resp, err) == [kind |-> kind, id |-> id, resp |-> resp, err |-> err]

\* one frame the poll took from the frame layer, and what it did with it
Entry(r, step, sent, evBefore, evAfter) ==
    [bytes |-> r.bytes, head |-> r.head, step |-> step, sent |-> sent,
     evBefore |-> evBefore, evAfter |-> evAfter]

PollRet(out, r, ev, frames) ==
    [out |-> out, f |-> r.f, io |-> r.io, ev |-> ev, frames |-> frames]

\* a frame process_event or process_stream has consumed: poll calls itself
ConsumedBy(pe, resp) ==
    IF pe.ret = "true" THEN "event"
    ELSE IF ProcessStream(resp) THEN "stream"
    ELSE "reply"

\* a poll that reports Ready(None) of the inner stream as NotReady
ReturnAsyncNotReady(kind) ==
    Out(IF kind = "done" THEN "notready" ELSE kind, <<>>, <<>>, "")

\* `_ => debug!(..)` then `Ok(async)`: NotReady and Ready(None) are
\* returned as the inner poll gave them
ReturnAsync(kind) == Out(kind, <<>>, <<>>, "")

\* LibvirtTransport::poll, with the frames it has taken so far in this
\* call; TPollMatch is its match on r, the result of the inner poll
RECURSIVE TPoll(_, _, _, _, _)
RECURSIVE TPollMatch(_, _, _, _)

TPollMatch(r, ev, ub, frames) ==
    IF r.kind = "err"
    THEN PollRet(Out("err", <<>>, <<>>, r.err), r, ev,
                 IF r.bytes = <<>> /\ r.head = <<>> THEN frames
                 ELSE Append(frames, Entry(r, "decode_err", "none", ev, ev)))
    ELSE IF r.kind # "frame"
    THEN PollRet(ReturnAsync(r.kind), r, ev, frames)
    ELSE LET d  == Decode(r.bytes)
             pe == ProcessEvent(d.resp, ev, ub)
             step == IF pe.ret \in {"err", "abort"} THEN pe.ret
                     ELSE ConsumedBy(pe, d.resp)
             log == Append(frames, Entry(r, step, pe.sent, ev, pe.ev)) IN
         IF step = "err"
         THEN PollRet(Out("err", <<>>, <<>>, "InvalidInput"), r, pe.ev, log)
         ELSE IF step = "abort"
         THEN PollRet(Out("abort", <<>>, <<>>, ""), r, pe.ev, log)
         ELSE IF step = "reply"
         THEN PollRet(Out("value", d.id, d.resp, ""), r, pe.ev, log)
         ELSE TPoll(r.f, r.io, pe.ev, ub, log)

TPoll(f, io, ev, ub, frames) == TPollMatch(FTPoll(f, io), ev, ub, frames)

---------------------------------------------------------------------------
(* The write path: FramedTransport as a Sink over length_delimited.        *)

\* FramedWrite::do_write with the socket accepting k more bytes: Ready
\* when nothing of the pending frame is left
DoWrite(w, k) ==
    LET n == IF k < Len(w.pending) THEN k ELSE Len(w.pending) IN
    [w EXCEPT !.pending = Drop(@, n), !.out = @ \o Take(w.pending, n)]

\* FramedWrite::start_send: NotReady (the item handed back) while an
\* earlier frame is not fully written, else the frame is taken
InnerStartSend(w, k, bytes) ==
    LET w1 == DoWrite(w, k) IN
    IF w1.pending # <<>>
    THEN [ready |-> FALSE, w |-> w1]
    ELSE [ready |-> TRUE,
          w |-> [w1 EXCEPT !.pending = Framed(bytes),
                           !.handed = Append(@, bytes)]]

\* the result of start_send after the frame layer's answer r
Asserted(r) == [ret |-> IF r.ready THEN "ready" ELSE "abort", w |-> r.w]

\* a start_send that hands over what encode had written when it failed
StartSendLeaksPartial(w, k, id, req) ==
    IF ~EncodeOk(id, req)
    THEN [ret |-> "err", w |-> InnerStartSend(w, k, Take(Encode(id, req), 12)).w]
    ELSE Asserted(InnerStartSend(w, k, Encode(id, req)))

\* FramedTransport::start_send: encode into a buffer of its own, return
\* the error of a failed encode, else hand the bytes to the frame layer and
\* assert that it took them
StartSendResult(w, k, id, req) ==
    IF ~EncodeOk(id, req)
    THEN [ret |-> "err", w |-> w]
    ELSE Asserted(InnerStartSend(w, k, Encode(id, req)))

\* a poll_complete that reports Ready whatever is pending
PollCompleteAlwaysReady(w, k) == TRUE

\* FramedTransport::poll_complete: Ready when the pending frame is written
\* and the socket flushed
PollCompleteReady(w, k) == DoWrite(w, k).pending = <<>>

---------------------------------------------------------------------------
(* Inputs.                                                                 *)

PROG == W(32, 0, 128, 134)
VERS == W(0, 0, 0, 1)

\* procedure numbers: the lifecycle callback (318), another event callback
\* (319), 65536 + 318, and 65535, which is no variant of remote_procedure
ProcWords == {W(0, 0, 1, 62), W(0, 0, 1, 63), W(0, 1, 1, 62), W(0, 0, 255, 255)}

LifecycleProc == W(0, 0, 1, 62)

CbA == W(0, 0, 0, 1)
CbB == W(0, 0, 0, 2)

\* callback ids the application registers
RegIds == {CbA}

LifecyclePayload(cb) == cb \o W(0, 0, 0, 5)

Header(proc, type, serial) ==
    [prog |-> PROG, vers |-> VERS, proc_ |-> proc, type_ |-> type,
     serial |-> serial, status |-> VIR_NET_OK]

\* serial and payload of the frames the peer sends
PeerBodies ==
    {[serial |-> W(0, 0, 0, 1), payload |-> <<7>>],
     [serial |-> W(0, 0, 0, 2), payload |-> LifecyclePayload(CbA)]}

PeerTypes == {VIR_NET_REPLY, VIR_NET_MESSAGE, VIR_NET_STREAM}

\* the libvirt wire format: the length word counts its own 4 bytes
PeerFramed(b) == ValWord(Len(b) + 4) \o b

PeerFrames ==
    {PeerFramed(PackHeader(Header(p, t, b.serial)) \o b.payload) :
        p \in ProcWords, t \in PeerTypes, b \in PeerBodies}

AReply == PackHeader(Header(W(0, 0, 1, 63), VIR_NET_REPLY, W(0, 0, 0, 1))) \o <<7>>

\* malformed or partial input: a complete frame of 2 bytes, a header
\* whose type is no variant, and a frame arriving in two pieces
PeerPieces ==
    {ValWord(6) \o <<1, 2>>,
     PeerFramed(PackHeader(Header(W(0, 0, 1, 63), 9, W(0, 0, 0, 1)))),
     Take(PeerFramed(AReply), 6),
     Drop(PeerFramed(AReply), 6)}

\* a lifecycle event for a callback id the application never registers
PeerOther ==
    {PeerFramed(PackHeader(Header(W(0, 0, 1, 62), VIR_NET_MESSAGE, W(0, 0, 0, 1)))
                \o LifecyclePayload(CbB))}

\* two frames in one write: a lifecycle event for CbA, then a reply
PeerBurst ==
    {PeerFramed(PackHeader(Header(LifecycleProc, VIR_NET_MESSAGE, W(0, 0, 0, 2)))
                \o LifecyclePayload(CbA))
        \o PeerFramed(AReply)}

PeerChunks == PeerFrames \cup PeerPieces \cup PeerOther \cup PeerBurst

\* multiplex ids: 1, 2 and 2^32 + 1
Id(hi, lo) == <<0, 0, 0, hi, 0, 0, 0, lo>>
SendIds == {Id(0, 1), Id(0, 2), Id(1, 1)}

\* a message type the packer rejects
BadType == VIR_NET_TYPE_LAST + 4

SendReqs ==
    {[header |-> Header(W(0, 0, 0, 1), VIR_NET_CALL, s), payload |-> pl] :
        s \in {W(0, 0, 0, 0), W(9, 9, 9, 9)}, pl \in {<<>>, <<5, 6>>}}
    \cup {[header |-> Header(W(0, 0, 0, 1), BadType, W(0, 0, 0, 0)),
           payload |-> <<5, 6>>]}

CodecReqs ==
    {[header |-> [Header(p, t, s) EXCEPT !.status = st], payload |-> pl] :
        p \in ProcWords, t \in {VIR_NET_CALL, VIR_NET_REPLY, VIR_NET_STREAM},
        s \in {W(0, 0, 0, 0), W(9, 9, 9, 9)},
        st \in {VIR_NET_OK, VIR_NET_STATUS_LAST},
        pl \in {<<>>, <<5, 6>>, LifecyclePayload(CbA)}}

---------------------------------------------------------------------------
(* Initial states.                                                         *)

NewFramedRead == [buf |-> <<>>, data |-> -1, head |-> <<>>, eof |-> FALSE,
                  readable |-> FALSE]

NoPoll == [called |-> FALSE, out |-> Out("none", <<>>, <<>>, ""), frames |-> <<>>,
           before |-> <<>>]

ReadInit ==
    /\ sock = <<>>
    /\ peerEof = FALSE
    /\ nsent = 0
    /\ fl = NewFramedRead
    /\ events = [k \in {} |-> NewChannel]
    /\ last = NoPoll

WriteInit ==
    /\ wr = [pending |-> <<>>, out |-> <<>>, handed |-> <<>>, state |-> "open",
             waited |-> FALSE]
    /\ sendlog = <<>>

NoRoundTrip == [phase |-> "idle", id |-> <<>>, req |-> <<>>, bytes |-> <<>>,
                out |-> <<>>, wire |-> <<>>, frame |-> <<>>]

\* the Mutex is free and process_event is outside its block
LockInit == [owner |-> "none", pc |-> "idle", cb |-> <<>>, atLock |-> {},
             seen |-> {}, orphan |-> FALSE, ret |-> "none", op |-> "none",
             k |-> <<>>, n |-> 0]

Init == ReadInit /\ WriteInit /\ rt = NoRoundTrip /\ lk = LockInit

InitCodec ==
    /\ ReadInit
    /\ WriteInit
    /\ lk = LockInit
    /\ \E id \in SendIds, req \in CodecReqs :
          rt = [NoRoundTrip EXCEPT !.phase = "in", !.id = id, !.req = req]

---------------------------------------------------------------------------
(* The read path: peer, transport, application.                            *)

\* a call of poll that panicked has unwound the task that owns the
\* transport; otherwise the record of the previous call is forgotten when
\* anything else happens
Aborted == last.out.kind = "abort"
KeepIfAborted == IF Aborted THEN last ELSE NoPoll

\* the peer writes one chunk
PeerSend(c) ==
    /\ ~peerEof
    /\ nsent < MaxFrames
    /\ sock' = sock \o c
    /\ nsent' = nsent + 1
    /\ last' = KeepIfAborted
    /\ UNCHANGED <<peerEof, fl, events, wr, sendlog, rt, lk>>

\* the peer shuts its side of the connection
PeerClose ==
    /\ ~peerEof
    /\ peerEof' = TRUE
    /\ last' = KeepIfAborted
    /\ UNCHANGED <<sock, nsent, fl, events, wr, sendlog, rt, lk>>

\* the state a call of poll leaves, r being what TPoll computed
PollResult(r) ==
    /\ fl' = r.f
    /\ sock' = r.io.sock
    /\ events' = r.ev
    /\ last' = [called |-> TRUE, out |-> r.out, frames |-> r.frames,
                before |-> [fl |-> fl, sock |-> sock, eof |-> peerEof,
                            events |-> events]]

\* one call of LibvirtTransport::poll
Poll(ub) ==
    /\ ~Aborted
    /\ PollResult(TPoll(fl, [sock |-> sock, eof |-> peerEof], events, ub, <<>>))
    /\ UNCHANGED <<peerEof, nsent, wr, sendlog, rt, lk>>

\* the application inserts the Sender of a new channel under a callback id
Register(k) ==
    /\ events' = [j \in DOMAIN events \cup {k} |->
                     IF j = k THEN NewChannel ELSE events[j]]
    /\ last' = KeepIfAborted
    /\ UNCHANGED <<sock, peerEof, nsent, fl, wr, sendlog, rt, lk>>

\* the application removes a callback id
Unregister(k) ==
    /\ k \in DOMAIN events
    /\ events' = [j \in DOMAIN events \ {k} |-> events[j]]
    /\ last' = KeepIfAborted
    /\ UNCHANGED <<sock, peerEof, nsent, fl, wr, sendlog, rt, lk>>

\* EventStream::poll takes a message: Receiver::poll unparks the sender
Recv(k) ==
    /\ k \in DOMAIN events
    /\ events[k].queue # <<>>
    /\ events' = [events EXCEPT ![k].queue = Tail(@), ![k].parked = FALSE]
    /\ last' = KeepIfAborted
    /\ UNCHANGED <<sock, peerEof, nsent, fl, wr, sendlog, rt, lk>>

\* the EventStream is dropped: the channel closes and its senders wake
DropReceiver(k) ==
    /\ k \in DOMAIN events
    /\ events[k].open
    /\ events' = [events EXCEPT ![k] = [queue |-> <<>>, parked |-> FALSE,
                                        open |-> FALSE]]
    /\ last' = KeepIfAborted
    /\ UNCHANGED <<sock, peerEof, nsent, fl, wr, sendlog, rt, lk>>

Next ==
    \/ \E c \in PeerChunks : PeerSend(c)
    \/ PeerClose
    \/ \E ub \in UBOutcomes : Poll(ub)
    \/ \E k \in RegIds : Register(k)
    \/ \E k \in RegIds : Unregister(k)
    \/ \E k \in RegIds : Recv(k)
    \/ \E k \in RegIds : DropReceiver(k)

Spec == Init /\ [][Next]_vars

---------------------------------------------------------------------------
(* The write path.                                                         *)

\* how many more bytes the socket accepts before it would block
Budgets(w) == {0, LengthFieldLength, Len(w.pending)}

\* Sink::start_send of LibvirtTransport
StartSend(id, req, k) ==
    /\ wr.state = "open"
    /\ Len(sendlog) < MaxSends
    /\ LET r == StartSendResult(wr, k, id, req) IN
       /\ wr' = IF r.ret = "abort" THEN [r.w EXCEPT !.state = "panicked"] ELSE r.w
       /\ sendlog' = Append(sendlog, [id |-> id, req |-> req, ret |-> r.ret])
    /\ UNCHANGED <<readVars, rt, lk>>

\* Sink::poll_complete of LibvirtTransport
PollComplete(k) ==
    /\ wr.state = "open"
    /\ wr' = DoWrite(wr, k)
    /\ UNCHANGED <<readVars, sendlog, rt, lk>>

\* Sink::close of LibvirtTransport: not ready until poll_complete is
\* (waited records such a return), then the frame layer shuts the socket
\* down
Close(k) ==
    /\ wr.state = "open"
    /\ wr' = IF PollCompleteReady(wr, k)
             THEN [DoWrite(wr, k) EXCEPT !.state = "closed"]
             ELSE [DoWrite(wr, k) EXCEPT !.waited = TRUE]
    /\ UNCHANGED <<readVars, sendlog, rt, lk>>

NextWrite ==
    \/ \E id \in SendIds, req \in SendReqs, k \in Budgets(wr) : StartSend(id, req, k)
    \/ \E k \in Budgets(wr) : PollComplete(k)
    \/ \E k \in Budgets(wr) : Close(k)

SpecWrite == Init /\ [][NextWrite]_vars

---------------------------------------------------------------------------
(* Codec round trip: encode, decode; write through the frame layer, read   *)
(* back through it.                                                        *)

RtEncode ==
    /\ rt.phase = "in"
    /\ rt' = [rt EXCEPT !.phase = "encoded", !.bytes = Encode(rt.id, rt.req)]
    /\ UNCHANGED <<readVars, writeVars, lk>>

RtDecode ==
    /\ rt.phase = "encoded"
    /\ rt' = [rt EXCEPT !.phase = "decoded",
                        !.out = IF DecodeOk(rt.bytes)
                                THEN [ok |-> TRUE, v |-> Decode(rt.bytes)]
                                ELSE [ok |-> FALSE, v |-> <<>>]]
    /\ UNCHANGED <<readVars, writeVars, lk>>

RtWrite ==
    /\ rt.phase = "decoded"
    /\ rt' = [rt EXCEPT !.phase = "written", !.wire = Framed(rt.bytes)]
    /\ UNCHANGED <<readVars, writeVars, lk>>

RtRead ==
    /\ rt.phase = "written"
    /\ LET r == FLPoll(NewFramedRead, [sock |-> rt.wire, eof |-> FALSE]) IN
       rt' = [rt EXCEPT !.phase = "read",
                        !.frame = [kind |-> r.kind, bytes |-> r.bytes,
                                   head |-> r.head, rest |-> r.f.buf]]
    /\ UNCHANGED <<readVars, writeVars, lk>>

NextCodec == RtEncode \/ RtDecode \/ RtWrite \/ RtRead

SpecCodec == InitCodec /\ [][NextCodec]_vars

---------------------------------------------------------------------------
(* The events table under its Mutex.  process_event's block (lock, lookup, *)
(* send, end of block) is taken one statement at a time; the application   *)
(* inserts and removes under the same Mutex, through its clone of the Arc  *)
(* in LibvirtProto, and polls or drops its Receivers without it.           *)

\* callback ids the application inserts and removes here
LockKeys == {CbA, CbB}

\* a lock that is released as soon as the lookup has returned
GuardHeldForLookup(pc) == pc = "locked"

\* the MutexGuard `map` is alive at these positions of the block: from the
\* lock to the end of the block or the return of a try!
GuardHeld(pc) == pc \in {"locked", "hit", "miss", "sent", "failed"}

\* process_event moves to position pc
MoveTo(pc) ==
    [lk EXCEPT !.pc = pc,
               !.owner = IF GuardHeld(pc) THEN "transport"
                         ELSE IF lk.owner = "transport" THEN "none" ELSE @]

\* `self.events.lock().unwrap()`, for an event of callback id cb
LockEvents(cb) ==
    /\ lk.pc = "idle"
    /\ lk.owner = "none"
    /\ lk.n < MaxDeliveries
    /\ lk' = [MoveTo("locked") EXCEPT !.cb = cb, !.atLock = DOMAIN events,
                                      !.seen = {}, !.orphan = FALSE,
                                      !.ret = "none", !.n = @ + 1]
    /\ UNCHANGED <<readVars, writeVars, rt>>

\* `map.get_mut(&msg.callbackID)`
GetMut ==
    /\ lk.pc = "locked"
    /\ lk' = [MoveTo(IF Lookup(events, lk.cb) # {} THEN "hit" ELSE "miss")
                 EXCEPT !.seen = DOMAIN events]
    /\ UNCHANGED <<readVars, writeVars, rt>>

\* `sender.start_send(msg.into())` and `sender.poll_complete()` on the
\* Sender the lookup returned; orphan when its entry has left the table
SenderSend ==
    /\ lk.pc = "hit"
    /\ IF lk.cb \in DOMAIN events
       THEN /\ events' = [events EXCEPT ![lk.cb] =
                    SendTo(@, IntoDomainEvent(UnpackLifecycle(LifecyclePayload(lk.cb))))]
            /\ lk' = [MoveTo(IF AfterSend(SendKind(events[lk.cb])) = "err"
                             THEN "failed" ELSE "sent")
                         EXCEPT !.ret = AfterSend(SendKind(events[lk.cb]))]
       ELSE /\ events' = events
            /\ lk' = [MoveTo("sent") EXCEPT !.orphan = TRUE, !.ret = "true"]
    /\ UNCHANGED <<sock, peerEof, nsent, fl, last, writeVars, rt>>

\* the end of the block after a send, `return Ok(true)`
EndBlockHit ==
    /\ lk.pc = "sent"
    /\ lk' = MoveTo("idle")
    /\ UNCHANGED <<readVars, writeVars, rt>>

\* the end of the block after a lookup that found nothing
EndBlockMiss ==
    /\ lk.pc = "miss"
    /\ lk' = [MoveTo("idle") EXCEPT !.ret = "true"]
    /\ UNCHANGED <<readVars, writeVars, rt>>

\* try! returns the error of a failed send out of the block
ReturnSendError ==
    /\ lk.pc = "failed"
    /\ lk' = MoveTo("idle")
    /\ UNCHANGED <<readVars, writeVars, rt>>

\* the application locks the table to insert or to remove k
AppLock(op, k) ==
    /\ lk.owner = "none"
    /\ op = "remove" => k \in DOMAIN events
    /\ lk' = [lk EXCEPT !.owner = "app", !.op = op, !.k = k]
    /\ UNCHANGED <<readVars, writeVars, rt>>

\* the application's insert or remove, and the end of its guard
AppApply ==
    /\ lk.op # "none"
    /\ events' = IF lk.op = "insert"
                 THEN [j \in DOMAIN events \cup {lk.k} |->
                          IF j = lk.k THEN NewChannel ELSE events[j]]
                 ELSE [j \in DOMAIN events \ {lk.k} |-> events[j]]
    /\ lk' = [lk EXCEPT !.owner = "none", !.op = "none", !.k = <<>>]
    /\ UNCHANGED <<sock, peerEof, nsent, fl, last, writeVars, rt>>

NextLock ==
    \/ \E cb \in LockKeys : LockEvents(cb)
    \/ GetMut
    \/ SenderSend
    \/ EndBlockHit
    \/ EndBlockMiss
    \/ ReturnSendError
    \/ \E op \in {"insert", "remove"}, k \in LockKeys : AppLock(op, k)
    \/ AppApply
    \/ \E k \in LockKeys : Recv(k)
    \/ \E k \in LockKeys : DropReceiver(k)

SpecLock == Init /\ [][NextLock]_vars

---------------------------------------------------------------------------
(* Properties of the read path.  They speak of the frames the latest call  *)
(* of poll took from the frame layer (last.frames, in arrival order) and   *)
(* read each frame's fields from its bytes.                                *)

NFrames == Len(last.frames)

WellFormed(e) == UnpackHeaderOk(e.bytes)
TypeOf(e) == e.bytes[16]
ProcOf(e) == SubSeq(e.bytes, 9, 12)
SerialOf(e) == SubSeq(e.bytes, 17, 20)
PayloadOf(e) == Drop(e.bytes, HeaderLen)

\* the poll returned frame i as its value
Surfaced(i) == i = NFrames /\ last.out.kind = "value"

\* the poll went past frame i: it took another frame, or its result is
\* what the frame layer said when asked for the next one
WentOn(i) ==
    /\ last.frames[i].step \notin {"reply", "err", "abort", "decode_err"}
    /\ i = NFrames => last.out.kind \in {"notready", "done", "err"}

\* an EVENT frame of the lifecycle callback whose payload holds a message
LifecycleEvent(e) ==
    /\ WellFormed(e)
    /\ TypeOf(e) = VIR_NET_MESSAGE
    /\ ProcOf(e) = LifecycleProc
    /\ Len(PayloadOf(e)) >= LifecycleMsgLen

CallbackOf(e) == SubSeq(e.bytes, HeaderLen + 1, HeaderLen + 4)
EventOf(e) == [event |-> SubSeq(e.bytes, HeaderLen + 5, HeaderLen + 8)]

\* C1: every REPLY frame a poll takes, whatever its procedure number, is
\* the value of that poll: its id is the header's serial and the response
\* packs back to the frame's bytes.  (A poll returns after its first
\* reply, so arrival order and no loss or duplication follow.)
C1_RepliesSurfaced ==
    \A i \in 1..NFrames :
        LET e == last.frames[i] IN
        (WellFormed(e) /\ TypeOf(e) = VIR_NET_REPLY) =>
            /\ Surfaced(i)
            /\ last.out.id = AsRequestId(SerialOf(e))
            /\ PackHeader(last.out.resp.header) \o last.out.resp.payload = e.bytes

\* C2: for every EVENT frame whose callback id is registered when the
\* frame is processed, with the receiver of its channel alive, the channel
\* gets exactly one more message, the event of the payload, in every
\* state of the channel, and the frame is not the poll's value.
C2_RegisteredEventDelivered ==
    \A i \in 1..NFrames :
        LET e == last.frames[i]
            cb == CallbackOf(e) IN
        (LifecycleEvent(e) /\ cb \in DOMAIN e.evBefore /\ e.evBefore[cb].open) =>
            /\ e.evAfter[cb].queue = Append(e.evBefore[cb].queue, EventOf(e))
            /\ ~Surfaced(i)

\* an EVENT frame, of any event procedure, whose payload starts with a
\* callback id
EventWithCallback(e) ==
    /\ WellFormed(e)
    /\ TypeOf(e) = VIR_NET_MESSAGE
    /\ Len(PayloadOf(e)) >= LifecycleMsgLen

\* C3: an EVENT frame whose callback id is not in the events table is no
\* error: no channel receives anything, the table is unchanged, the frame
\* is not the poll's value, and the poll goes on to the next frame.
C3_UnregisteredEventDropped ==
    \A i \in 1..NFrames :
        LET e == last.frames[i] IN
        (EventWithCallback(e) /\ CallbackOf(e) \notin DOMAIN e.evBefore) =>
            /\ e.evAfter = e.evBefore
            /\ ~Surfaced(i)
            /\ WentOn(i)

\* C4: no STREAM frame is ever the value of a poll; every STREAM frame is
\* consumed and the poll goes on to the next frame.
C4_StreamDropped ==
    \A i \in 1..NFrames :
        LET e == last.frames[i] IN
        (WellFormed(e) /\ TypeOf(e) = VIR_NET_STREAM) =>
            ~Surfaced(i) /\ WentOn(i)

\* C5: no EVENT frame, of whatever procedure and registered or not, is
\* ever the value of a poll.
C5_EventsNeverSurfaced ==
    \A i \in 1..NFrames :
        LET e == last.frames[i] IN
        (WellFormed(e) /\ TypeOf(e) = VIR_NET_MESSAGE) => ~Surfaced(i)

\* the input of the latest poll ended cleanly before the call: the peer
\* had shut down, and nothing was left in the socket or the read buffer
CleanEofBefore ==
    /\ last.before.eof
    /\ last.before.sock = <<>>
    /\ last.before.fl.buf = <<>>
    /\ last.before.fl.data = -1

CleanEofAfter ==
    /\ peerEof
    /\ sock = <<>>
    /\ fl.buf = <<>>
    /\ fl.data = -1

\* C8: a poll at a clean end of input reports completion, takes no frame
\* and delivers nothing, and leaves the input at a clean end, so every
\* later poll reports completion too; and a poll in which the frame layer
\* first sees the end of input with nothing pending reports completion.
C8_CleanEofCompletes ==
    last.called =>
        /\ CleanEofBefore =>
              /\ last.out.kind = "done"
              /\ NFrames = 0
              /\ events = last.before.events
              /\ CleanEofAfter /\ fl.eof
        /\ (fl.eof /\ ~last.before.fl.eof /\ CleanEofAfter) => last.out.kind = "done"

\* a poll reported completion after an earlier poll had seen the end
C8_Witness ==
    /\ last.called
    /\ CleanEofBefore
    /\ last.before.fl.eof
    /\ last.out.kind = "done"

\* the unread input starts with a complete frame shorter than a header
ShortFrameAhead ==
    LET input == last.before.fl.buf \o last.before.sock IN
    /\ last.before.fl.data = -1
    /\ Len(input) >= 4
    /\ input[1] = 0
    /\ WordVal(Take(input, 4)) >= 4
    /\ WordVal(Take(input, 4)) - 4 < HeaderLen
    /\ Len(input) >= WordVal(Take(input, 4))

\* C9: a complete frame shorter than the header makes the poll that takes
\* it return an InvalidInput error: it is not the poll's value, and a poll
\* that finds it at the head of the input is not left waiting.
C9_ShortFrameIsDecodeError ==
    last.called =>
        /\ \A i \in 1..NFrames :
              Len(last.frames[i].bytes) < HeaderLen =>
                  /\ i = NFrames
                  /\ last.out.kind = "err"
                  /\ last.out.err = "InvalidInput"
        /\ ShortFrameAhead =>
              /\ NFrames = 1
              /\ Len(last.frames[1].bytes) < HeaderLen
              /\ last.out.kind = "err"

\* a poll consumed a frame and then took a short one
C9_Witness ==
    /\ last.called
    /\ NFrames >= 2
    /\ Len(last.frames[NFrames].bytes) < HeaderLen

---------------------------------------------------------------------------
(* Properties of the write path.                                           *)

\* the requests given to start_send that encode could serialize
IsEncodable(s) == s.ret # "err"
Encodable == SelectSeq(sendlog, IsEncodable)

\* C6: the frames handed to the frame layer are, in order, one per request
\* given to start_send, the k-th with serial equal to the k-th id, the
\* other header fields as given, and the payload appended unchanged.
C6_FramesInSubmissionOrder ==
    /\ Len(wr.handed) = Len(Encodable)
    /\ \A k \in 1..Len(wr.handed) :
          LET b == wr.handed[k]
              s == Encodable[k] IN
          /\ AsRequestId(SubSeq(b, 17, 20)) = s.id
          /\ Take(b, 16) = Take(PackHeader(s.req.header), 16)
          /\ SubSeq(b, 21, 24) = SubSeq(PackHeader(s.req.header), 21, 24)
          /\ Drop(b, HeaderLen) = s.req.payload

---------------------------------------------------------------------------
(* Properties of the codec and of the framing.                             *)

\* a multiplex id that fits the 32-bit serial
FitsU32(id) == Take(id, 4) = <<0, 0, 0, 0>>

RoundTrip ==
    /\ rt.out.ok
    /\ rt.out.v.id = rt.id
    /\ AsRequestId(rt.out.v.resp.header.serial) = rt.id
    /\ rt.out.v.resp.header = [rt.req.header EXCEPT !.serial = rt.out.v.resp.header.serial]
    /\ rt.out.v.resp.payload = rt.req.payload

Decoded == rt.phase \in {"decoded", "written", "read"}

\* C7 as stated: for every multiplex id, decode of encode gives back the
\* id, as correlation id and as serial, with the other header fields and
\* the payload.
C7_RoundTripAnyId == Decoded => RoundTrip

\* C7 amended: the same for every multiplex id below 2^32.
C7_RoundTrip == (Decoded /\ FitsU32(rt.id)) => RoundTrip

\* a round trip that had to overwrite the serial and carry a payload
C7_Witness ==
    /\ Decoded
    /\ FitsU32(rt.id)
    /\ AsRequestId(rt.req.header.serial) # rt.id
    /\ rt.req.payload # <<>>

Written == rt.phase \in {"written", "read"}

\* C10 as stated: the length prefix is the number of bytes that follow
\* it, on the write side and on the read side, and a written frame reads
\* back as it was.
C10_PrefixExcludesItself ==
    /\ Written => WordVal(Take(rt.wire, 4)) = Len(rt.wire) - 4
    /\ rt.phase = "read" =>
          /\ rt.frame.kind = "frame"
          /\ rt.frame.bytes = rt.bytes
          /\ WordVal(rt.frame.head) = Len(rt.frame.bytes)

\* C10 amended: the length prefix is the number of bytes that follow it
\* plus its own 4, on the write side and on the read side, and a written
\* frame reads back as it was, with nothing left over.
C10_PrefixCountsItself ==
    /\ Written =>
          /\ Drop(rt.wire, 4) = rt.bytes
          /\ WordVal(Take(rt.wire, 4)) = Len(Drop(rt.wire, 4)) + 4
    /\ rt.phase = "read" =>
          /\ rt.frame.kind = "frame"
          /\ rt.frame.bytes = rt.bytes
          /\ rt.frame.rest = <<>>
          /\ WordVal(rt.frame.head) = Len(rt.frame.bytes) + 4

\* a frame with a payload was written and read back
C10_Witness ==
    /\ rt.phase = "read"
    /\ rt.frame.kind = "frame"
    /\ Len(rt.frame.bytes) > HeaderLen

---------------------------------------------------------------------------
(* Errors and the end of the read path.                                    *)

\* the poll handed an event to a subscriber's channel
Delivered(l) == \E i \in 1..Len(l.frames) : l.frames[i].sent = "sent"

\* the poll returned Err
Errored(l) == l.called /\ l.out.kind = "err"

\* C11: once a poll has returned an error, the next poll of the transport
\* returns no reply value and delivers no event.
C11_ErrorTerminatesReading ==
    [][Errored(last) => ~(last'.called /\ (last'.out.kind = "value" \/ Delivered(last')))]_vars

\* the unread input: what the frame layer holds and what the socket holds
Unread(f, s) == (IF f.data >= 0 THEN f.head ELSE <<>>) \o f.buf \o s

\* the bytes of the frames a poll took, length words included
RECURSIVE TakenBytes(_)
TakenBytes(frames) ==
    IF frames = <<>> THEN <<>>
    ELSE Head(frames).head \o Head(frames).bytes \o TakenBytes(Tail(frames))

\* every frame of the latest poll is off the input
FramesConsumed ==
    Unread(last.before.fl, last.before.sock) =
        TakenBytes(last.frames) \o Unread(fl, sock)

\* C12: a lifecycle EVENT frame for a registered callback id whose
\* receiver is gone makes the poll that takes it return an InvalidInput
\* error: the frame is off the input, it is not the poll's value, the poll
\* returns no reply, and nothing is queued.
C12_ClosedChannelIsError ==
    \A i \in 1..NFrames :
        LET e == last.frames[i]
            cb == CallbackOf(e) IN
        (LifecycleEvent(e) /\ cb \in DOMAIN e.evBefore /\ ~e.evBefore[cb].open) =>
            /\ i = NFrames
            /\ last.out = Out("err", <<>>, <<>>, "InvalidInput")
            /\ FramesConsumed
            /\ e.evAfter = e.evBefore

\* a poll consumed a frame and then failed to deliver an event to a closed
\* channel, with more input behind it
C12_Witness ==
    /\ NFrames >= 2
    /\ LET e == last.frames[NFrames] IN
       /\ LifecycleEvent(e)
       /\ CallbackOf(e) \in DOMAIN e.evBefore
       /\ ~e.evBefore[CallbackOf(e)].open

---------------------------------------------------------------------------
(* Properties of the lock of the events table.                             *)

\* process_event is inside its block
InBlock == lk.pc # "idle"

\* C13: the lookup and its send are one critical section: the application
\* is never inside its insert or remove while process_event is inside its
\* block, the table between the lookup and the end of the block is the
\* table the lookup saw, the send goes to an entry of the table that was
\* there when the lock was taken, and the lock is free again after every
\* exit of the block (hit, miss, send error).
C13_LookupAndSendAtomic ==
    /\ ~(InBlock /\ lk.op # "none")
    /\ lk.pc \in {"hit", "miss", "sent", "failed"} => DOMAIN events = lk.seen
    /\ lk.pc \in {"hit", "sent", "failed"} => (lk.cb \in lk.atLock /\ ~lk.orphan)
    /\ lk.pc = "miss" => lk.cb \notin lk.atLock
    /\ (lk.pc = "idle" /\ lk.ret # "none") => lk.owner # "transport"
    /\ lk.owner = "transport" <=> InBlock

\* a send failed on a closed channel inside the block, after the
\* application had removed and inserted entries, and the block was left
C13_Witness ==
    /\ lk.pc = "idle"
    /\ lk.ret = "err"
    /\ lk.owner = "none"
    /\ lk.n = MaxDeliveries
    /\ DOMAIN events = {CbA}

---------------------------------------------------------------------------
(* Properties of close and of start_send.                                  *)

\* the bytes of these frames on the wire, length words included
RECURSIVE WireOf(_)
WireOf(frames) ==
    IF frames = <<>> THEN <<>> ELSE Framed(Head(frames)) \o WireOf(Tail(frames))

\* C14: close has signalled closed only when every frame start_send
\* accepted is written out whole: while bytes are pending, close returns
\* not-ready and the transport stays open.
C14_CloseFlushesFirst ==
    wr.state = "closed" =>
        /\ wr.pending = <<>>
        /\ wr.out = WireOf(wr.handed)

\* a close returned not-ready with a frame pending, and a later close
\* closed the transport
C14_Witness ==
    /\ wr.state = "closed"
    /\ wr.waited
    /\ wr.handed # <<>>

---------------------------------------------------------------------------
(* Properties of the procedure number and of the event payload.            *)

\* the 32-bit procedure number of the header is that of a variant of
\* remote_procedure
KnownProcedure(w) == w[1] = 0 /\ w[2] = 0 /\ ValidProcedure(AsU16(w))

\* C15: a frame whose procedure number is that of no procedure makes the
\* poll that takes it return an InvalidInput error; it is not handled as
\* an event (nothing is looked up or sent, the poll does not abort) and it
\* is not the poll's value.
C15_UnknownProcedureIsDecodeError ==
    \A i \in 1..NFrames :
        LET e == last.frames[i] IN
        (WellFormed(e) /\ ~KnownProcedure(ProcOf(e))) =>
            /\ i = NFrames
            /\ last.out = Out("err", <<>>, <<>>, "InvalidInput")
            /\ e.step = "decode_err"

\* a frame of the lifecycle callback whose payload is no lifecycle message
BadLifecyclePayload(e) ==
    /\ WellFormed(e)
    /\ ProcOf(e) = LifecycleProc
    /\ ~UnpackLifecycleOk(PayloadOf(e))

\* C16: every call of poll ends in a value, not-ready, end of input or an
\* error, never in an abort; a frame of the lifecycle callback whose
\* payload does not unpack makes the poll that takes it return an
\* InvalidInput error.
C16_BadPayloadIsError ==
    last.called =>
        /\ last.out.kind \in {"value", "notready", "done", "err"}
        /\ \A i \in 1..NFrames :
              BadLifecyclePayload(last.frames[i]) =>
                  /\ i = NFrames
                  /\ last.out = Out("err", <<>>, <<>>, "InvalidInput")

---------------------------------------------------------------------------
(* Properties of the loop of poll.                                         *)

\* frames the latest poll consumed as events or stream messages, one
\* nested call of poll each
ConsumedOnly ==
    Cardinality({i \in 1..NFrames : last.frames[i].step \in {"event", "stream"}})

\* C17: a call of poll consumes fewer than MaxFrames event and stream
\* frames, whatever MaxFrames is set to and however many such frames the
\* peer has sent back to back: it yields to its caller before that.
C17_PollYieldsAfterBound == ConsumedOnly < MaxFrames

---------------------------------------------------------------------------
(* Properties of start_send and of a subscriber at capacity.               *)

\* C18: the assertion of FramedTransport::start_send never fails: the
\* frame layer takes every encoded frame, also while an earlier frame is
\* not written out and the connection accepts no bytes.
C18_AssertionHolds ==
    /\ wr.state # "panicked"
    /\ \A i \in 1..Len(sendlog) : sendlog[i].ret # "abort"

\* C19: when the channel of a registered callback id is at capacity, the
\* send is refused and the event is discarded: the channel and the table
\* are unchanged, process_event reports the frame consumed without error,
\* the frame is not the poll's value, and the poll goes on to the next
\* frame.
C19_FullChannelDropsEvent ==
    \A i \in 1..NFrames :
        LET e == last.frames[i]
            cb == CallbackOf(e) IN
        (/\ WellFormed(e)
         /\ ProcOf(e) = LifecycleProc
         /\ UnpackLifecycleOk(PayloadOf(e))
         /\ cb \in DOMAIN e.evBefore
         /\ e.evBefore[cb].open
         /\ e.evBefore[cb].parked) =>
            /\ e.sent = "full"
            /\ e.step = "event"
            /\ e.evAfter = e.evBefore
            /\ ~Surfaced(i)
            /\ WentOn(i)

\* a poll dropped an event at a channel at capacity and returned the
\* reply behind it
C19_Witness ==
    /\ NFrames >= 2
    /\ last.frames[1].sent = "full"
    /\ last.out.kind = "value"

---------------------------------------------------------------------------
(* Properties of a failed encode.                                          *)

\* the bytes encode gives for an entry of sendlog
EncodedOf(s) == Encode(s.id, s.req)

\* the frames the calls of start_send that returned Ready have handed over
RECURSIVE ReadyFrames(_)
ReadyFrames(log) ==
    IF log = <<>> THEN <<>>
    ELSE IF Head(log).ret = "ready"
    THEN <<EncodedOf(Head(log))>> \o ReadyFrames(Tail(log))
    ELSE ReadyFrames(Tail(log))

\* this step is a call of start_send that returned the error of encode
FailedSend ==
    /\ Len(sendlog') = Len(sendlog) + 1
    /\ sendlog'[Len(sendlog')].ret = "err"

\* C20: a start_send whose encode fails returns the error and leaves the
\* write side as it was, with no byte of the request handed to the frame
\* layer; the frames handed over are those of the calls that returned
\* Ready, as if the failed calls had not been made.
C20_FailedEncodeLeavesNoTrace ==
    /\ [](\A i \in 1..Len(sendlog) :
             sendlog[i].ret = "err" <=> ~EncodeOk(sendlog[i].id, sendlog[i].req))
    /\ [](wr.handed = ReadyFrames(sendlog))
    /\ [][FailedSend => wr' = wr]_vars

\* a start_send failed in encode, and the next start_send handed its
\* frame over as the first frame of the connection
C20_Witness ==
    /\ Len(sendlog) = 2
    /\ sendlog[1].ret = "err"
    /\ sendlog[2].ret = "ready"
    /\ wr.handed = <<EncodedOf(sendlog[2])>>
    /\ wr.pending = Framed(EncodedOf(sendlog[2]))

=========================
